---------------------------- MODULE Spec2Model ----------------------------
(***************************************************************************)
(* A model of backend/src/agent.py: the tutor state, the seven tools the   *)
(* model driver may call, the teach-back scoring heuristic and the         *)
(* entrypoint that runs one voice session.                                 *)
(*                                                                         *)
(* A Python str is a sequence of one-character strings, so that strip,     *)
(* lower, split, the `in` substring test and the f-strings are computed    *)
(* and not assumed.  A dict is a function whose domain is its set of keys. *)
(***************************************************************************)
EXTENDS Integers, Sequences, FiniteSets, TLC

VARIABLES
    content,           \* COURSE_CONTENT, loaded once at import
    hashSeed,          \* the interpreter's str-hash seed, drawn at process start
    pc,                \* where entrypoint() stands
    mode,              \* TutorState.mode
    current_topic_id,  \* TutorState.current_topic_id
    history,           \* TutorState.history
    agent_session,     \* Userdata.agent_session is bound to the AgentSession
    tts,               \* the (voice, style) options of the session's TTS
    greeting,          \* outcome of the initial session.say
    runOutcome,        \* outcome of session.run
    ret,               \* what the last tool call returned
    raised,            \* the exception the last tool call raised to its caller
    lastCall,          \* the last tool call: its name, argument and pre-state
    ttsFailed,         \* some session.tts.update_options has raised
    firstEval,         \* the first evaluate_teachback ever made, over all runs
    unit               \* inputs and result of the scoring arithmetic alone

vars == <<content, hashSeed, pc, mode, current_topic_id, history, agent_session,
          tts, greeting, runOutcome, ret, raised, lastCall, ttsFailed,
          firstEval, unit>>

----------------------------------------------------------------------------
(* Python values *)

\* Python's None; no str equals it, since a str holds one-character items.
None == <<"None">>

\* U+2014, the dash of the feedback sentences, as one character.
EMDASH == "EM DASH"

\* bool(x) for x a str or None.
Truthy(x) == x # None /\ x # <<>>

Whitespace == {" ", "\t", "\n"}

UpperCase == <<"A","B","C","D","E","F","G","H","I","J","K","L","M",
               "N","O","P","Q","R","S","T","U","V","W","X","Y","Z">>
LowerCase == <<"a","b","c","d","e","f","g","h","i","j","k","l","m",
               "n","o","p","q","r","s","t","u","v","w","x","y","z">>

LowerChar(c) ==
    IF \E i \in 1..Len(UpperCase) : UpperCase[i] = c
    THEN LowerCase[CHOOSE i \in 1..Len(UpperCase) : UpperCase[i] = c]
    ELSE c

\* str.lower()
Lower(s) == [i \in 1..Len(s) |-> LowerChar(s[i])]

\* str.strip(): what lies between the first and the last non-whitespace character
Strip(s) ==
    LET keep == {i \in 1..Len(s) : s[i] \notin Whitespace}
    IN  IF keep = {} THEN <<>>
        ELSE SubSeq(s, CHOOSE i \in keep : \A j \in keep : i <= j,
                       CHOOSE i \in keep : \A j \in keep : j <= i)

\* (x or "")
OrEmpty(x) == IF Truthy(x) THEN x ELSE <<>>

\* sub in s
Contains(sub, s) ==
    \E i \in 0..(Len(s) - Len(sub)) : SubSeq(s, i + 1, i + Len(sub)) = sub

\* The members of a set of indices, in increasing order.
Ascending(I) ==
    [k \in 1..Cardinality(I) |-> CHOOSE i \in I : Cardinality({j \in I : j < i}) = k - 1]

\* str.split(): the maximal runs of non-whitespace, in order.
Split(s) ==
    LET IsWord(i) == s[i] \notin Whitespace
        starts  == {i \in 1..Len(s) : IsWord(i) /\ (i = 1 \/ ~IsWord(i - 1))}
        EndOf(i) == CHOOSE j \in i..Len(s) :
                        /\ \A k \in i..j : IsWord(k)
                        /\ (j = Len(s) \/ ~IsWord(j + 1))
        at == Ascending(starts)
    IN  [k \in 1..Len(at) |-> SubSeq(s, at[k], EndOf(at[k]))]

\* sep.join(parts)
RECURSIVE Join(_, _)
Join(sep, parts) ==
    IF parts = <<>> THEN <<>>
    ELSE IF Len(parts) = 1 THEN parts[1]
    ELSE parts[1] \o sep \o Join(sep, Tail(parts))

\* str(n) for n >= 0
RECURSIVE IntToStr(_)
IntToStr(n) ==
    LET d == <<"0","1","2","3","4","5","6","7","8","9">>[(n % 10) + 1]
    IN  IF n < 10 THEN <<d>> ELSE Append(IntToStr(n \div 10), d)

Max(a, b) == IF a >= b THEN a ELSE b
Min(a, b) == IF a <= b THEN a ELSE b

\* d.get(k, default)
Get(d, k, default) == IF k \in DOMAIN d THEN d[k] ELSE default

----------------------------------------------------------------------------
(* The content documents the process may load *)

learn      == <<"l","e","a","r","n">>
quiz       == <<"q","u","i","z">>
teach_back == <<"t","e","a","c","h","_","b","a","c","k">>

LoopsTopic ==
    [id |-> <<"l","o","o","p","s">>, title |-> <<"L","o","o","p","s">>, summary |-> <<"L","o","o","p","s"," ","r","e","p","e","a","t"," ","c","o","d","e"," ","b","l","o","c","k","s">>]

\* Title and summary hold 13 distinct tokens longer than 3 characters.
RecursionTopic ==
    [id |-> <<"r","e","c","u","r","s","i","o","n">>, title |-> <<"R","e","c","u","r","s","i","o","n">>,
     summary |-> <<"a"," ","f","u","n","c","t","i","o","n"," ","t","h","a","t"," ","c","a","l","l","s"," ","i","t","s","e","l","f"," ","u","n","t","i","l"," ","s","o","m","e"," ","b","a","s","e"," ","c","a","s","e"," ","s","t","o","p","s"," ","f","u","r","t","h","e","r"," ","d","e","e","p","e","r"," ","n","e","s","t","e","d"," ","c","a","l","l","s">>,
     sample_question |-> <<"W","h","a","t"," ","i","s"," ","a"," ","b","a","s","e"," ","c","a","s","e","?">>,
     teaching_prompt |-> <<"T","e","a","c","h"," ","m","e"," ","r","e","c","u","r","s","i","o","n",".">>]

\* An identifier that is not in trimmed, lower-cased form.
CapitalTopic ==
    [id |-> <<"L","o","o","p","s">>, title |-> <<"L","o","o","p","s">>, summary |-> <<"L","o","o","p","s"," ","r","e","p","e","a","t"," ","c","o","d","e"," ","b","l","o","c","k","s">>,
     sample_question |-> <<"N","a","m","e"," ","a"," ","l","o","o","p",".">>]

\* An identifier that is the empty string.
BlankTopic ==
    [id |-> <<>>, title |-> <<"B","a","s","i","c","s">>, summary |-> <<"c","o","d","e"," ","r","u","n","s"," ","f","r","o","m"," ","t","h","e"," ","t","o","p">>]

NoTitleTopic == [id |-> <<"l","o","o","p","s">>, summary |-> <<"L","o","o","p","s"," ","r","e","p","e","a","t"," ","c","o","d","e"," ","b","l","o","c","k","s">>]
NoIdTopic    == [title |-> <<"L","o","o","p","s">>, summary |-> <<"L","o","o","p","s"," ","r","e","p","e","a","t"," ","c","o","d","e"," ","b","l","o","c","k","s">>]

\* Documents whose records all hold the required id, title and summary.
WellFormedContents ==
    { <<LoopsTopic, RecursionTopic>>, <<CapitalTopic, BlankTopic>> }

\* json.loads checks no field: any list of objects loads.
LoadableContents ==
    WellFormedContents \cup { <<LoopsTopic, NoTitleTopic>>, <<NoIdTopic, LoopsTopic>> }

\* What the model driver may pass as topic_id, mode and user_answer.
TopicInputs == { <<"l","o","o","p","s">>, <<"L","O","O","P","S"," ">>, <<"r","e","c","u","r","s","i","o","n">>, <<>>, <<"a","r","r","a","y","s">> }

ModeInputs == { learn, quiz, teach_back, <<" ","Q","u","i","z">>, <<"T","E","A","C","H","_","B","A","C","K">>, <<"e","x","a","m">>, <<>> }

AnswerInputs ==
    { <<>>, <<"L","o","o","p","s"," ","r","e","p","e","a","t"," ","c","o","d","e">>, <<"l","o","o","p","s"," ","r","e","p","e","a","t"," ","c","o","d","e"," ","b","l","o","c","k","s">>,
      <<"R","e","c","u","r","s","i","o","n"," ","i","s"," ","a"," ","f","u","n","c","t","i","o","n"," ","t","h","a","t"," ","c","a","l","l","s"," ","i","t","s","e","l","f"," ","u","n","t","i","l">> }

\* The number of str-hash seeds the model tells apart.
NumSeeds == 2
Seeds == 0..(NumSeeds - 1)

----------------------------------------------------------------------------
(* State and userdata, as a tool call sees them *)

VOICE_MAP ==
    (learn      :> <<"en-US-matthew", "Promo">>) @@
    (quiz       :> <<"en-US-alicia", "Conversation">>) @@
    (teach_back :> <<"en-US-ken", "Conversational">>)

\* The TTS options before any AgentSession exists.
NoTTS == <<"None", "None">>

\* The start of a tool call on ctx.userdata: nothing returned or raised yet.
Call ==
    [mode |-> mode, topic |-> current_topic_id, tts |-> tts,
     session |-> agent_session,
     ret |-> None, raised |-> "none", tts_update |-> "not_attempted"]

Return(o, r) == [o EXCEPT !.ret = r]
Raise(o, e)  == [o EXCEPT !.raised = e, !.ret = None]

\* next((t for t in COURSE_CONTENT if t["id"] == tid), None): the index of the
\* first record whose id is tid (0 for None); t["id"] raises on a record without id.
RECURSIVE ScanById(_, _, _)
ScanById(C, tid, i) ==
    IF i > Len(C) THEN [raised |-> "none", idx |-> 0]
    ELSE IF "id" \notin DOMAIN C[i] THEN [raised |-> "KeyError", idx |-> 0]
    ELSE IF C[i].id = tid THEN [raised |-> "none", idx |-> i]
    ELSE ScanById(C, tid, i + 1)

\* TutorState.topic()
topic(C, cur) ==
    IF ~Truthy(cur) THEN [raised |-> "none", idx |-> 0] ELSE ScanById(C, cur, 1)

----------------------------------------------------------------------------
(* Tools *)

\* f"{t['id']} ({t['title']})"
TopicLabel(t) == t.id \o <<" ","(">> \o t.title \o <<")">>

list_topics_body(C, o) ==
    IF \E i \in 1..Len(C) : ~({"id", "title"} \subseteq DOMAIN C[i])
    THEN Raise(o, "KeyError")
    ELSE Return(o, <<"A","v","a","i","l","a","b","l","e"," ","t","o","p","i","c","s",":"," ">>
                   \o Join(<<";"," ">>, [i \in 1..Len(C) |-> TopicLabel(C[i])]))

\* select_topic with the assignment moved above the lookup.
select_topic_assigns_first(C, o, topic_id) ==
    LET tid   == Lower(Strip(OrEmpty(topic_id)))
        found == ScanById(C, tid, 1)
        o2    == [o EXCEPT !.topic = tid]
    IN  IF found.raised # "none" THEN Raise(o2, found.raised)
        ELSE IF found.idx = 0
        THEN LET l == list_topics_body(C, o2)
             IN  IF l.raised # "none" THEN l
                 ELSE Return(o2, <<"T","o","p","i","c"," ","'">> \o topic_id \o <<"'"," ","n","o","t"," ","f","o","u","n","d","."," ">> \o l.ret)
        ELSE IF "title" \notin DOMAIN C[found.idx] THEN Raise(o2, "KeyError")
        ELSE Return(o2, <<"S","e","l","e","c","t","e","d"," ","t","o","p","i","c",":"," ">> \o C[found.idx].title \o <<".">>)

select_topic_body(C, o, topic_id) ==
    LET tid   == Lower(Strip(OrEmpty(topic_id)))
        found == ScanById(C, tid, 1)
    IN  IF found.raised # "none" THEN Raise(o, found.raised)
        ELSE IF found.idx = 0
        THEN LET l == list_topics_body(C, o)
             IN  IF l.raised # "none" THEN l
                 ELSE Return(o, <<"T","o","p","i","c"," ","'">> \o topic_id \o <<"'"," ","n","o","t"," ","f","o","u","n","d","."," ">> \o l.ret)
        ELSE LET o2 == [o EXCEPT !.topic = tid]
             IN  IF "title" \notin DOMAIN C[found.idx] THEN Raise(o2, "KeyError")
                 ELSE Return(o2, <<"S","e","l","e","c","t","e","d"," ","t","o","p","i","c",":"," ">> \o C[found.idx].title \o <<".">>)

\* The update without its try/except: a failure leaves set_mode as an exception.
update_tts_uncaught(o, m, update) ==
    IF ~o.session THEN o
    ELSE IF update = "ok"
         THEN [o EXCEPT !.tts = VOICE_MAP[m], !.tts_update = "ok"]
         ELSE Raise([o EXCEPT !.tts_update = "failed"], "Exception")

\* The update with voice and style passed in each other's place.
update_tts_swapped(o, m, update) ==
    IF ~o.session THEN o
    ELSE IF update = "ok"
         THEN [o EXCEPT !.tts = <<VOICE_MAP[m][2], VOICE_MAP[m][1]>>, !.tts_update = "ok"]
         ELSE [o EXCEPT !.tts_update = "failed"]

\* The try block of set_mode: session.tts.update_options(voice=voice, style=style),
\* which the TTS plugin completes (update = "ok") or fails (update = "raises").
update_tts(o, m, update) ==
    IF ~o.session THEN o
    ELSE IF update = "ok"
         THEN [o EXCEPT !.tts = VOICE_MAP[m], !.tts_update = "ok"]
         ELSE [o EXCEPT !.tts_update = "failed"]

\* set_mode with the assignment moved above the membership test.
set_mode_assigns_first(o, mode_in, update) ==
    LET m  == Lower(Strip(OrEmpty(mode_in)))
        o1 == [o EXCEPT !.mode = m]
    IN  IF m \notin DOMAIN VOICE_MAP
        THEN Return(o1, <<"I","n","v","a","l","i","d"," ","m","o","d","e","."," ","C","h","o","o","s","e"," ","l","e","a","r","n",","," ","q","u","i","z",","," ","o","r"," ","t","e","a","c","h","_","b","a","c","k",".">>)
        ELSE LET o2 == update_tts(o1, m, update)
             IN  IF o2.raised # "none" THEN o2
                 ELSE Return(o2, <<"M","o","d","e"," ","s","e","t"," ","t","o"," ">> \o m \o <<".">>)

set_mode_body(o, mode_in, update) ==
    LET m == Lower(Strip(OrEmpty(mode_in)))
    IN  IF m \notin DOMAIN VOICE_MAP
        THEN Return(o, <<"I","n","v","a","l","i","d"," ","m","o","d","e","."," ","C","h","o","o","s","e"," ","l","e","a","r","n",","," ","q","u","i","z",","," ","o","r"," ","t","e","a","c","h","_","b","a","c","k",".">>)
        ELSE LET o2 == update_tts([o EXCEPT !.mode = m], m, update)
             IN  IF o2.raised # "none" THEN o2
                 ELSE Return(o2, <<"M","o","d","e"," ","s","e","t"," ","t","o"," ">> \o m \o <<".">>)

explain_topic_body(C, o) ==
    LET t == topic(C, o.topic)
    IN  IF t.raised # "none" THEN Raise(o, t.raised)
        ELSE IF t.idx = 0 THEN Return(o, <<"N","o"," ","t","o","p","i","c"," ","s","e","l","e","c","t","e","d","."," ","U","s","e"," ","s","e","l","e","c","t","_","t","o","p","i","c"," ","f","i","r","s","t",".">>)
        ELSE Return(o, Get(C[t.idx], "summary", <<"N","o"," ","s","u","m","m","a","r","y"," ","a","v","a","i","l","a","b","l","e",".">>))

ask_quiz_body(C, o) ==
    LET t == topic(C, o.topic)
    IN  IF t.raised # "none" THEN Raise(o, t.raised)
        ELSE IF t.idx = 0 THEN Return(o, <<"N","o"," ","t","o","p","i","c"," ","s","e","l","e","c","t","e","d","."," ","U","s","e"," ","s","e","l","e","c","t","_","t","o","p","i","c"," ","f","i","r","s","t",".">>)
        ELSE Return(o, Get(C[t.idx], "sample_question", <<"N","o"," ","s","a","m","p","l","e"," ","q","u","e","s","t","i","o","n"," ","a","v","a","i","l","a","b","l","e",".">>))

prompt_teachback_body(C, o) ==
    LET t == topic(C, o.topic)
    IN  IF t.raised # "none" THEN Raise(o, t.raised)
        ELSE IF t.idx = 0 THEN Return(o, <<"N","o"," ","t","o","p","i","c"," ","s","e","l","e","c","t","e","d","."," ","U","s","e"," ","s","e","l","e","c","t","_","t","o","p","i","c"," ","f","i","r","s","t",".">>)
        ELSE Return(o, Get(C[t.idx], "teaching_prompt",
                           Get(C[t.idx], "sample_question",
                               <<"P","l","e","a","s","e"," ","e","x","p","l","a","i","n"," ","t","h","i","s"," ","t","o","p","i","c"," ","b","a","c","k"," ","t","o"," ","m","e",".">>)))

----------------------------------------------------------------------------
(* Teach-back scoring *)

\* The slice [:12] of the keyword list.
KeywordLimit == 12

\* Every distinct item of s once, in the order of first appearance.
Dedup(s) ==
    LET at == Ascending({i \in 1..Len(s) : \A j \in 1..(i - 1) : s[j] # s[i]})
    IN  [k \in 1..Len(at) |-> s[at[k]]]

Rotate(s, k) ==
    IF s = <<>> THEN s
    ELSE LET r == k % Len(s) IN SubSeq(s, r + 1, Len(s)) \o SubSeq(s, 1, r)

\* Iterating set(words): every distinct word once, in the order of the hash
\* table, which for str keys depends on the process's hash seed.  The orders told
\* apart are the rotations of the order of first appearance.
SetOrder(words, seed) == Rotate(Dedup(words), seed)

\* [w for w in set(text_src.split()) if len(w) > 3][:12]
Keywords(text_src, seed) ==
    LET long == SelectSeq(SetOrder(Split(text_src), seed), LAMBDA w : Len(w) > 3)
    IN  SubSeq(long, 1, Min(KeywordLimit, Len(long)))

\* sum(1 for kw in keywords if kw in user_lower)
Matches(keywords, user_lower) ==
    Cardinality({i \in 1..Len(keywords) : Contains(keywords[i], user_lower)})

\* round() of the exact quotient num / den, ties to the even neighbour.
PyRound(num, den) ==
    LET q == num \div den
        r == num % den
    IN  IF 2 * r < den THEN q
        ELSE IF 2 * r > den THEN q + 1
        ELSE IF q % 2 = 0 THEN q ELSE q + 1

\* The score with round() in the place of int().
Score_rounded(match, nkeywords) ==
    LET total == Max(1, nkeywords)
        score == PyRound(match * 10, total)
    IN  Max(1, Min(10, score))

\* total = max(1, len(keywords)); int((match / total) * 10); max(1, min(10, score)).
\* match / total is a quotient of naturals, so int() is the floor; the float
\* product equals the exact one for every total up to KeywordLimit.
Score(match, nkeywords) ==
    LET total == Max(1, nkeywords)
        score == (match * 10) \div total
    IN  Max(1, Min(10, score))

Feedback(score) ==
    IF score >= 8 THEN <<"G","r","e","a","t"," ",EMDASH," ","c","l","e","a","r"," ","a","n","d"," ","c","o","v","e","r","s"," ","m","a","i","n"," ","p","o","i","n","t","s",".">>
    ELSE IF score >= 5
    THEN <<"G","o","o","d"," ",EMDASH," ","c","o","v","e","r","s"," ","s","o","m","e"," ","p","o","i","n","t","s",";"," ","t","r","y"," ","a","d","d","i","n","g"," ","a"," ","s","h","o","r","t"," ","e","x","a","m","p","l","e"," ","o","r"," ","d","e","f","i","n","i","t","i","o","n",".">>
    ELSE <<"N","e","e","d","s"," ","i","m","p","r","o","v","e","m","e","n","t"," ",EMDASH," ","t","r","y"," ","a"," ","s","h","o","r","t"," ","d","e","f","i","n","i","t","i","o","n"," ","a","n","d"," ","a","n"," ","e","x","a","m","p","l","e",".">>

evaluate_teachback_body(C, o, user_answer, seed) ==
    LET t == topic(C, o.topic)
    IN  IF t.raised # "none" THEN Raise(o, t.raised)
        ELSE IF t.idx = 0 THEN Return(o, <<"N","o"," ","t","o","p","i","c"," ","s","e","l","e","c","t","e","d",".">>)
        ELSE LET text_src   == Lower(Get(C[t.idx], "title", <<>>) \o <<" ">>
                                     \o Get(C[t.idx], "summary", <<>>))
                 keywords   == Keywords(text_src, seed)
                 user_lower == Lower(OrEmpty(user_answer))
                 score      == Score(Matches(keywords, user_lower), Len(keywords))
             IN  Return(o, Feedback(score) \o <<" ","(","s","c","o","r","e",":"," ">> \o IntToStr(score) \o <<"/","1","0",")">>)

----------------------------------------------------------------------------
(* One process: module import, then entrypoint() or direct calls of the tools *)

NoCall ==
    [op |-> "none", arg |-> None, pre_mode |-> learn, pre_topic |-> None,
     pre_tts |-> NoTTS, tts_update |-> "not_attempted"]

NoEval == [topic |-> None, answer |-> None, ret |-> None]

NoUnit == [match |-> 0, keywords |-> 0, score |-> -1]

\* Userdata(tutor_state=TutorState()): mode learn, no topic, empty history, no
\* session bound.  pc = "entry" is entrypoint() just after building it;
\* pc = "direct" is a caller that builds the same Userdata and calls the tools
\* on it without a session.
Init ==
    /\ content \in WellFormedContents
    /\ hashSeed \in Seeds
    /\ pc \in {"entry", "direct"}
    /\ mode = learn
    /\ current_topic_id = None
    /\ history = <<>>
    /\ agent_session = FALSE
    /\ tts = NoTTS
    /\ greeting = "pending"
    /\ runOutcome = "pending"
    /\ ret = None
    /\ raised = "none"
    /\ lastCall = NoCall
    /\ ttsFailed = FALSE
    /\ firstEval = NoEval
    /\ unit = NoUnit

\* The same start over every document json.loads accepts.
InitAnyContent ==
    /\ content \in LoadableContents
    /\ hashSeed \in Seeds
    /\ pc \in {"entry", "direct"}
    /\ mode = learn
    /\ current_topic_id = None
    /\ history = <<>>
    /\ agent_session = FALSE
    /\ tts = NoTTS
    /\ greeting = "pending"
    /\ runOutcome = "pending"
    /\ ret = None
    /\ raised = "none"
    /\ lastCall = NoCall
    /\ ttsFailed = FALSE
    /\ firstEval = NoEval
    /\ unit = NoUnit

\* AgentSession(..., tts=murf.TTS(voice="en-US-matthew", style="Promo"), ...),
\* userdata.agent_session = session, the metrics and shutdown hooks.
create_session ==
    /\ pc = "entry"
    /\ pc' = "connect"
    /\ tts' = <<"en-US-matthew", "Promo">>
    /\ agent_session' = TRUE
    /\ UNCHANGED <<content, hashSeed, mode, current_topic_id, history, greeting,
                   runOutcome, ret, raised, lastCall, ttsFailed, firstEval, unit>>

\* Where entrypoint() goes after an await outside any try: on, or out with the error.
after_await(next, outcome) == IF outcome = "ok" THEN next ELSE "raised"

\* The greeting without its try/except.
after_greeting_fatal(outcome) == IF outcome = "ok" THEN "run" ELSE "raised"

\* try: await session.say(...) / except Exception: logger.debug(...)
after_greeting(outcome) == "run"

\* try: await session.run() / except Exception as e: logger.exception(...)
after_run(outcome) == "done"

\* await ctx.connect()
connect ==
    /\ pc = "connect"
    /\ \E outcome \in {"ok", "failed"} : pc' = after_await("start", outcome)
    /\ UNCHANGED <<content, hashSeed, mode, current_topic_id, history, agent_session,
                   tts, greeting, runOutcome, ret, raised, lastCall, ttsFailed,
                   firstEval, unit>>

\* await session.start(agent=TeachTutorAgent(), ...)
start ==
    /\ pc = "start"
    /\ \E outcome \in {"ok", "failed"} : pc' = after_await("say", outcome)
    /\ UNCHANGED <<content, hashSeed, mode, current_topic_id, history, agent_session,
                   tts, greeting, runOutcome, ret, raised, lastCall, ttsFailed,
                   firstEval, unit>>

\* The initial greeting.
say ==
    /\ pc = "say"
    /\ \E outcome \in {"ok", "failed"} :
          /\ greeting' = outcome
          /\ pc' = after_greeting(outcome)
    /\ UNCHANGED <<content, hashSeed, mode, current_topic_id, history, agent_session,
                   tts, runOutcome, ret, raised, lastCall, ttsFailed, firstEval, unit>>

\* The session loop, until it returns or fails.
run ==
    /\ pc = "run"
    /\ \E outcome \in {"ok", "failed"} :
          /\ runOutcome' = outcome
          /\ pc' = after_run(outcome)
    /\ UNCHANGED <<content, hashSeed, mode, current_topic_id, history, agent_session,
                   tts, greeting, ret, raised, lastCall, ttsFailed, firstEval, unit>>

\* The TeachTutorAgent's tools are registered by session.start; direct callers
\* hold them as module functions.
ToolsCallable == pc \in {"say", "run", "direct"}

\* The effect of one tool call that ended as o.
Apply(op, arg, o) ==
    /\ mode' = o.mode
    /\ current_topic_id' = o.topic
    /\ tts' = o.tts
    /\ ret' = o.ret
    /\ raised' = o.raised
    /\ lastCall' = [op |-> op, arg |-> arg, pre_mode |-> mode,
                    pre_topic |-> current_topic_id, pre_tts |-> tts,
                    tts_update |-> o.tts_update]
    /\ ttsFailed' = (ttsFailed \/ o.tts_update = "failed")
    /\ UNCHANGED <<content, hashSeed, pc, history, agent_session, greeting,
                   runOutcome, unit>>

list_topics ==
    /\ ToolsCallable
    /\ Apply("list_topics", None, list_topics_body(content, Call))
    /\ UNCHANGED firstEval

select_topic ==
    /\ ToolsCallable
    /\ \E topic_id \in TopicInputs :
          Apply("select_topic", topic_id, select_topic_body(content, Call, topic_id))
    /\ UNCHANGED firstEval

set_mode ==
    /\ ToolsCallable
    /\ \E mode_in \in ModeInputs, update \in {"ok", "raises"} :
          Apply("set_mode", mode_in, set_mode_body(Call, mode_in, update))
    /\ UNCHANGED firstEval

explain_topic ==
    /\ ToolsCallable
    /\ Apply("explain_topic", None, explain_topic_body(content, Call))
    /\ UNCHANGED firstEval

ask_quiz ==
    /\ ToolsCallable
    /\ Apply("ask_quiz", None, ask_quiz_body(content, Call))
    /\ UNCHANGED firstEval

prompt_teachback ==
    /\ ToolsCallable
    /\ Apply("prompt_teachback", None, prompt_teachback_body(content, Call))
    /\ UNCHANGED firstEval

evaluate_teachback_call ==
    /\ ToolsCallable
    /\ \E user_answer \in AnswerInputs :
          Apply("evaluate_teachback", user_answer,
                evaluate_teachback_body(content, Call, user_answer, hashSeed))

evaluate_teachback ==
    /\ evaluate_teachback_call
    /\ UNCHANGED firstEval

Next ==
    \/ create_session
    \/ connect
    \/ start
    \/ say
    \/ run
    \/ list_topics
    \/ select_topic
    \/ set_mode
    \/ explain_topic
    \/ ask_quiz
    \/ prompt_teachback
    \/ evaluate_teachback

Spec == Init /\ [][Next]_vars

SpecAnyContent == InitAnyContent /\ [][Next]_vars

\* cli.run_app: the program is run again as a new interpreter, which draws a
\* new hash seed, imports the module (the same content document) and starts
\* from a fresh Userdata.
new_process ==
    /\ pc \in {"done", "raised", "direct"}
    /\ hashSeed' \in Seeds
    /\ pc' \in {"entry", "direct"}
    /\ mode' = learn
    /\ current_topic_id' = None
    /\ agent_session' = FALSE
    /\ tts' = NoTTS
    /\ greeting' = "pending"
    /\ runOutcome' = "pending"
    /\ ret' = None
    /\ raised' = "none"
    /\ lastCall' = NoCall
    /\ ttsFailed' = FALSE
    /\ UNCHANGED <<content, history, firstEval, unit>>

\* The same call, observed over several runs: firstEval keeps the first
\* evaluation made with a topic identifier set.
evaluate_teachback_observed ==
    /\ evaluate_teachback_call
    /\ firstEval' =
          IF firstEval = NoEval /\ current_topic_id # None /\ ret' # None
          THEN [topic |-> current_topic_id, answer |-> lastCall'.arg, ret |-> ret']
          ELSE firstEval

NextRuns ==
    \/ create_session
    \/ connect
    \/ start
    \/ say
    \/ run
    \/ list_topics
    \/ select_topic
    \/ set_mode
    \/ explain_topic
    \/ ask_quiz
    \/ prompt_teachback
    \/ evaluate_teachback_observed
    \/ new_process

SpecRuns == Init /\ [][NextRuns]_vars

\* The scoring arithmetic on its own: every match count over every keyword
\* count the slice [:KeywordLimit] allows.
InitScore ==
    /\ content = <<LoopsTopic>>
    /\ hashSeed = 0
    /\ pc = "unit"
    /\ mode = learn
    /\ current_topic_id = None
    /\ history = <<>>
    /\ agent_session = FALSE
    /\ tts = NoTTS
    /\ greeting = "pending"
    /\ runOutcome = "pending"
    /\ ret = None
    /\ raised = "none"
    /\ lastCall = NoCall
    /\ ttsFailed = FALSE
    /\ firstEval = NoEval
    /\ \E k \in 0..KeywordLimit, m \in 0..KeywordLimit :
          /\ m <= k
          /\ unit = [match |-> m, keywords |-> k, score |-> -1]

score_step ==
    /\ pc = "unit"
    /\ unit.score = -1
    /\ unit' = [unit EXCEPT !.score = Score(unit.match, unit.keywords)]
    /\ UNCHANGED <<content, hashSeed, pc, mode, current_topic_id, history,
                   agent_session, tts, greeting, runOutcome, ret, raised, lastCall,
                   ttsFailed, firstEval>>

SpecScore == InitScore /\ [][score_step]_vars

----------------------------------------------------------------------------
(* Properties *)

\* The trimmed, lower-cased form of a string.
Normalize(s) == Strip(Lower(s))

\* No record's identifier matches s, both taken trimmed and lower-cased.
MatchesNoTopic(s) ==
    \A i \in 1..Len(content) : Normalize(content[i].id) # Normalize(s)

\* Idle until session.start has succeeded, Active until session.run is over.
SessionState ==
    IF pc \in {"say", "run"} THEN "Active"
    ELSE IF pc = "done" THEN "Ended"
    ELSE "Idle"

\* C1: after select_topic(s), for every record whose trimmed, lower-cased
\* identifier equals the trimmed, lower-cased s, current_topic_id is normalize(s)
\* and the returned string contains that record's title.
C1_SelectTopicByNormalizedId ==
    lastCall.op = "select_topic" =>
        \A i \in 1..Len(content) :
            Normalize(content[i].id) = Normalize(lastCall.arg) =>
                /\ raised = "none"
                /\ current_topic_id = Normalize(lastCall.arg)
                /\ Contains(content[i].title, ret)

\* C2: after select_topic(s) on an s that matches no topic identifier,
\* current_topic_id is what it was before the call, and the returned string
\* contains "not found" and the identifier of every record.
C2_UnknownTopicRejected ==
    (lastCall.op = "select_topic" /\ MatchesNoTopic(lastCall.arg)) =>
        /\ raised = "none"
        /\ current_topic_id = lastCall.pre_topic
        /\ Contains(<<"n","o","t"," ","f","o","u","n","d">>, ret)
        /\ \A i \in 1..Len(content) : Contains(content[i].id, ret)

\* An unknown identifier was rejected while a topic was selected.
C2_Witness ==
    /\ lastCall.op = "select_topic"
    /\ MatchesNoTopic(lastCall.arg)
    /\ lastCall.pre_topic # None
    /\ current_topic_id = lastCall.pre_topic
    /\ Contains(<<"n","o","t"," ","f","o","u","n","d">>, ret)

\* C3, as stated: after set_mode(m) on a string m that is not literally one of
\* learn, quiz, teach_back, the mode is what it was and the rejection is returned.
C3_NonLiteralModeRejected ==
    (lastCall.op = "set_mode" /\ lastCall.arg \notin {learn, quiz, teach_back}) =>
        /\ mode = lastCall.pre_mode
        /\ ret = <<"I","n","v","a","l","i","d"," ","m","o","d","e","."," ","C","h","o","o","s","e"," ","l","e","a","r","n",","," ","q","u","i","z",","," ","o","r"," ","t","e","a","c","h","_","b","a","c","k",".">>

\* C3, amended: after set_mode(m) on an m whose trimmed, lower-cased form is not
\* one of learn, quiz, teach_back, mode and voice are what they were and the
\* rejection string is returned.
C3_InvalidModeRejected ==
    (lastCall.op = "set_mode" /\ Normalize(lastCall.arg) \notin {learn, quiz, teach_back}) =>
        /\ raised = "none"
        /\ mode = lastCall.pre_mode
        /\ tts = lastCall.pre_tts
        /\ ret = <<"I","n","v","a","l","i","d"," ","m","o","d","e","."," ","C","h","o","o","s","e"," ","l","e","a","r","n",","," ","q","u","i","z",","," ","o","r"," ","t","e","a","c","h","_","b","a","c","k",".">>

\* "exam" was rejected in quiz mode.
C3_Witness ==
    /\ lastCall.op = "set_mode"
    /\ lastCall.arg = <<"e","x","a","m">>
    /\ lastCall.pre_mode = quiz
    /\ mode = quiz
    /\ ret = <<"I","n","v","a","l","i","d"," ","m","o","d","e","."," ","C","h","o","o","s","e"," ","l","e","a","r","n",","," ","q","u","i","z",","," ","o","r"," ","t","e","a","c","h","_","b","a","c","k",".">>

\* C4: after set_mode(m) with m one of learn, quiz, teach_back, mode is m and
\* the confirmation is returned, whether the voice update was made, failed or
\* was not attempted.
C4_ValidModeAlwaysSet ==
    (lastCall.op = "set_mode" /\ lastCall.arg \in {learn, quiz, teach_back}) =>
        /\ lastCall.tts_update \in {"ok", "failed", "not_attempted"}
        /\ raised = "none"
        /\ mode = lastCall.arg
        /\ ret = <<"M","o","d","e"," ","s","e","t"," ","t","o"," ">> \o lastCall.arg \o <<".">>

\* The mode changed to teach_back although the voice update failed.
C4_Witness ==
    /\ lastCall.op = "set_mode"
    /\ lastCall.arg = teach_back
    /\ lastCall.tts_update = "failed"
    /\ lastCall.pre_mode # teach_back
    /\ mode = teach_back
    /\ ret = <<"M","o","d","e"," ","s","e","t"," ","t","o"," ","t","e","a","c","h","_","b","a","c","k",".">>

\* C5: current_topic_id is unset or the identifier of a record, and whenever it
\* is set the topic accessor returns a record.
C5_TopicIdResolves ==
    /\ \/ current_topic_id = None
       \/ \E i \in 1..Len(content) : content[i].id = current_topic_id
    /\ current_topic_id # None => topic(content, current_topic_id).idx # 0

\* C6: an evaluation of the same topic and answer as the first one remembered
\* returns the same feedback and score, in this run of the program or a later one.
C6_EvaluationDeterministic ==
    ( /\ lastCall.op = "evaluate_teachback"
      /\ firstEval # NoEval
      /\ firstEval.topic = lastCall.pre_topic
      /\ firstEval.answer = lastCall.arg ) => ret = firstEval.ret

\* C7, as stated: the score is round((matches / max(1, keyword_count)) * 10)
\* clamped to [1, 10].
C7_ScoreIsRounded ==
    unit.score # -1 =>
        unit.score = Max(1, Min(10, PyRound(unit.match * 10, Max(1, unit.keywords))))

\* C7, amended: the score is the integer part of (matches / max(1, keyword_count))
\* * 10, raised to 1 when that is 0: an integer s in [1, 10] with
\* s * total <= 10 * matches < (s + 1) * total unless 10 * matches < total, where
\* it is 1; a zero-match answer scores 1.
C7_ScoreIsTruncated ==
    unit.score # -1 =>
        LET total == IF unit.keywords = 0 THEN 1 ELSE unit.keywords
        IN  /\ unit.score \in 1..10
            /\ unit.match = 0 => unit.score = 1
            /\ 10 * unit.match < total => unit.score = 1
            /\ 10 * unit.match >= total =>
                  /\ unit.score * total <= 10 * unit.match
                  /\ 10 * unit.match < (unit.score + 1) * total

\* Two of three keywords matched score 6.
C7_Witness == unit = [match |-> 2, keywords |-> 3, score |-> 6]

\* C8: no tool call raises, and every tool call returns a string.
C8_ToolsReturnText ==
    /\ raised = "none"
    /\ lastCall.op # "none" => ret # None

\* C9: the session state only steps Idle -> Active -> Ended; a failed greeting
\* is followed by the run loop, and a failed run loop by the end of entrypoint()
\* with no error leaving it.
C9_SessionLifecycle ==
    [][ /\ <<SessionState, SessionState'>> \in
              { <<"Idle", "Idle">>, <<"Idle", "Active">>, <<"Active", "Active">>,
                <<"Active", "Ended">>, <<"Ended", "Ended">> }
        /\ (pc = "say" /\ greeting' = "failed") => pc' = "run"
        /\ (pc = "run" /\ runOutcome' = "failed") => pc' = "done" ]_vars

\* Greeting and run loop both failed, and entrypoint() returned.
C9_Witness == pc = "done" /\ greeting = "failed" /\ runOutcome = "failed"

\* C10: once the session exists and while no voice update has failed, the TTS
\* options are VOICE_MAP[mode]; after a failed update they are what they were
\* before the call, and mode is the new mode.
C10_VoiceFollowsMode ==
    /\ (agent_session /\ ~ttsFailed) => tts = VOICE_MAP[mode]
    /\ (lastCall.op = "set_mode" /\ lastCall.tts_update = "failed") =>
          /\ tts = lastCall.pre_tts
          /\ mode = Normalize(lastCall.arg)

\* The first mode change of a session, to quiz, brought the quiz voice.
C10_Witness ==
    /\ agent_session
    /\ ~ttsFailed
    /\ lastCall.op = "set_mode"
    /\ lastCall.tts_update = "ok"
    /\ lastCall.pre_mode = learn
    /\ mode = quiz
    /\ tts = <<"en-US-alicia", "Conversation">>

=============================================================================
